---- MODULE Spec2Model ----
(***************************************************************************)
(* CAN bus monitoring: the signal matcher (canbus/signal_matcher.py), the  *)
(* value parsing, loading and rule validation of the configuration loader  *)
(* (config/config_loader.py), the configuration list of the selection      *)
(* screen (gui/config_selection_screen.py), the monitoring screen          *)
(* (gui/monitoring_screen.py) with its frame handler that drives the LED   *)
(* indicators, its display buffer, CAN ID filter and log, and the PCAN     *)
(* interface (canbus/pcan_interface.py) whose receive thread hands the     *)
(* frames to the screen through the Qt event queue.                        *)
(*                                                                         *)
(* A signal rule is a Python dict: here a record whose DOMAIN is the set   *)
(* of keys present.  A payload is a sequence of bytes; Python index i is   *)
(* TLA+ index i + 1.                                                       *)
(***************************************************************************)
EXTENDS Integers, Sequences, FiniteSets, TLC

VARIABLES
    \* ---- MainWindow / MonitoringScreen (the most recently created one) ----
    screen,                    \* "config" or "monitoring": the screen shown;
                               \* "ended": config shown, the screen that was
                               \* left not yet deleted; "closed": window closed
    signal_matchers,           \* dict: signal name -> signal config
    led,                       \* dict: signal name -> signal_widgets[name].led.status
    display_messages,          \* list of msg_data
    pending_display_messages,  \* list of msg_data
    log_buffer,                \* list of msg_data
    is_logging,
    display_paused,
    last_message_time,         \* dict: can_id -> time of the last frame with it
    active_can_ids,            \* dict: can_id -> count
    filtered_can_ids,          \* set of can_id
    log_table,                 \* rows of the log table (msg_data)
    message,                   \* the frame _on_message_received handled last
    notified,                  \* names whose widget got update_status for it
    clock,                     \* frames received by this screen (datetime.now())
    sessions,                  \* MonitoringScreens created so far
    \* ---- one call of SignalMatcher.match_signal ----
    call,                      \* [signal_config, can_id, data]
    called,
    is_match,
    raised,                    \* the call ended with an exception
    \* ---- SignalMatcher._extract_pgn on two identifiers ----
    pgn_in,                    \* <<a, b>>
    pgn_done,
    pgn_out,                   \* <<_extract_pgn(a), _extract_pgn(b)>>
    \* ---- validate_configuration on one configuration ----
    candidate,                 \* the configuration dict
    validated,
    validation,                \* [configuration, signals]: the results
    \* ---- one call of ConfigurationLoader._parse_value ----
    parse_in,                  \* the Python value
    parsed,
    parse_out,                 \* [value] returned, or [raised] the exception
    \* ---- the configuration file and the ConfigSelectionScreen ----
    config_file,               \* the list under the key configurations
    screen_built,              \* ConfigSelectionScreen.__init__ has run
    configurations,            \* ConfigSelectionScreen.configurations
    load_button_enabled,
    message_box,               \* title of the last QMessageBox.critical
    emitted,                   \* <<argument>> of the last configuration_selected.emit
    \* ---- PCANInterface, its receive threads and the Qt event queue ----
    bus,                       \* "None" or "open"
    running,
    receive_thread,            \* 0 for None, or the number of the thread
    loops,                     \* thread number -> [pc, msg] of its _receive_loop
    reads,                     \* frames bus.recv has returned so far
    event_queue,               \* events posted to the GUI thread, oldest first
    gui,                       \* the call the GUI thread is in, or "idle"
    error                      \* argument of the last error_occurred.emit

session_vars == <<screen, signal_matchers, led, display_messages,
                  pending_display_messages, log_buffer, is_logging,
                  display_paused, last_message_time, active_can_ids,
                  filtered_can_ids, log_table, message, notified, clock,
                  sessions>>
match_vars == <<call, called, is_match, raised>>
pgn_vars == <<pgn_in, pgn_done, pgn_out>>
validate_vars == <<candidate, validated, validation>>
parse_vars == <<parse_in, parsed, parse_out>>
load_vars == <<config_file, screen_built, configurations, load_button_enabled,
               message_box, emitted>>
recv_vars == <<bus, running, receive_thread, loops, reads, event_queue, gui,
               error>>
vars == <<session_vars, match_vars, pgn_vars, validate_vars, parse_vars,
          load_vars, recv_vars>>

----------------------------------------------------------------------------
\* Bounds of the model

\* longest payload and longest expected-data list that is enumerated
MaxLen == 2
\* frames one monitoring screen receives
MaxFrames == 3
\* signals in one configuration
MaxSignals == 2
\* monitoring screens created in one run of the application
MaxSessions == 2
\* MonitoringScreen.max_pending_messages (100 in the source), scaled down
max_pending_messages == 2
\* MonitoringScreen.max_display_messages (1000 in the source), scaled down
max_display_messages == 2
\* longest str given to _parse_value
MaxStrLen == 4

\* byte values of payloads and of expected data: 0x06 and 0x10 serve as range
\* limits, 0x05 and 0x11 are the neighbours just outside them
ByteVals == {5, 6, 16, 17}
\* limits of range rules, also the inverted pair (16, 6)
RangeLimits == {6, 16}

RECURSIVE SeqsUpTo(_, _)
SeqsUpTo(S, n) ==
    IF n = 0 THEN {<<>>}
    ELSE LET shorter == SeqsUpTo(S, n - 1)
         IN  shorter \cup {Append(s, x) : s \in {t \in shorter : Len(t) = n - 1}, x \in S}

Payloads == SeqsUpTo(ByteVals, MaxLen)

----------------------------------------------------------------------------
\* Python dict access

\* d.get(k, default)
Get(d, k, default) == IF k \in DOMAIN d THEN d[k] ELSE default

----------------------------------------------------------------------------
\* Python values of the numeric fields of a signal, as json.load builds them
\* and as load_configurations leaves them: the field of the record is the
\* type. A str is the sequence of its characters.

PyInt(n) == [int |-> n]
PyBool(b) == [bool |-> b]
PyStr(chars) == [str |-> chars]
PyList(items) == [list |-> items]
PyNone == [none |-> TRUE]

\* how a call ends: with a returned value or with an exception
Return(value) == [value |-> value]
Raise(exception) == [raised |-> exception]

\* isinstance(value, str)
isinstance_str(value) == "str" \in DOMAIN value
\* isinstance(value, int): bool is a subclass of int
isinstance_int(value) == "int" \in DOMAIN value \/ "bool" \in DOMAIN value
\* isinstance(value, list)
isinstance_list(value) == "list" \in DOMAIN value

\* the keys of a signal that hold numbers; name, match_type and protocol hold
\* text and are TLA+ strings
NumericKeys == {"can_id", "data", "min_value", "max_value", "data_byte_index",
                "byte_index", "bit_index", "bit_value"}

\* SignalMatcher's operators take the numbers of a signal as TLA+ integers
\* and its data as a sequence of them: the form of a signal whose numeric
\* fields are Python ints and whose data is a list of ints
AsIntegers(value) ==
    IF isinstance_list(value)
    THEN [i \in 1..Len(value.list) |-> value.list[i].int]
    ELSE value.int

SignalOfIntegers(signal) ==
    [k \in DOMAIN signal |->
        IF k \in NumericKeys THEN AsIntegers(signal[k]) ELSE signal[k]]

----------------------------------------------------------------------------
\* canbus/signal_matcher.py

\* data == expected_data on two Python lists
_match_exact(signal_config, data) ==
    LET expected_data == Get(signal_config, "data", <<>>)
    IN  data = expected_data

_match_range(signal_config, data) ==
    LET byte_index == Get(signal_config, "data_byte_index", 0)
        min_value == Get(signal_config, "min_value", 0)
        max_value == Get(signal_config, "max_value", 255)
    IN  IF byte_index >= Len(data)
        THEN FALSE
        ELSE LET byte_value == data[byte_index + 1]
             IN  min_value <= byte_value /\ byte_value <= max_value

\* data[byte_index] of _match_range raises IndexError for an index outside
\* -len(data) .. len(data) - 1
_match_range_raises(signal_config, data) ==
    LET byte_index == Get(signal_config, "data_byte_index", 0)
    IN  IF byte_index >= Len(data)
        THEN FALSE
        ELSE byte_index < 0 - Len(data)

\* match_signal without its CAN ID check
match_signal_any_id(signal_config, can_id, data) ==
    LET match_type == Get(signal_config, "match_type", "exact")
    IN  IF match_type = "exact" THEN _match_exact(signal_config, data)
        ELSE IF match_type = "range" THEN _match_range(signal_config, data)
        ELSE FALSE

\* signal_config.get('can_id') is None when the key is absent, and no
\* received can_id equals None
match_signal(signal_config, can_id, data) ==
    IF "can_id" \notin DOMAIN signal_config \/ can_id # signal_config["can_id"]
    THEN FALSE
    ELSE LET match_type == Get(signal_config, "match_type", "exact")
         IN  IF match_type = "exact" THEN _match_exact(signal_config, data)
             ELSE IF match_type = "range" THEN _match_range(signal_config, data)
             ELSE FALSE

\* whether match_signal ends with an exception instead of a result
match_signal_raises(signal_config, can_id, data) ==
    IF "can_id" \notin DOMAIN signal_config \/ can_id # signal_config["can_id"]
    THEN FALSE
    ELSE LET match_type == Get(signal_config, "match_type", "exact")
         IN  IF match_type = "exact" THEN FALSE
             ELSE IF match_type = "range"
             THEN _match_range_raises(signal_config, data)
             ELSE FALSE

\* the int a Python int or bool counts as in a comparison
int_value(value) ==
    IF "bool" \in DOMAIN value THEN (IF value.bool THEN 1 ELSE 0) ELSE value.int

\* match_signal on a signal as load_configurations leaves it, whose numeric
\* fields are Python values of any type: == and != between an int and a
\* value of another type are False and True, an order comparison between
\* them raises TypeError, and in min_value <= byte_value <= max_value the
\* second comparison is made only when the first is True. The byte index
\* is not negative.
match_signal_loaded(signal_config, can_id, data) ==
    IF \/ "can_id" \notin DOMAIN signal_config
       \/ ~isinstance_int(signal_config["can_id"])
       \/ can_id # int_value(signal_config["can_id"])
    THEN Return(FALSE)
    ELSE LET match_type == Get(signal_config, "match_type", "exact")
             expected_data == Get(signal_config, "data", PyList(<<>>))
             byte_index == Get(signal_config, "data_byte_index", PyInt(0))
             min_value == Get(signal_config, "min_value", PyInt(0))
             max_value == Get(signal_config, "max_value", PyInt(255))
         IN  IF match_type = "exact"
             THEN Return(/\ isinstance_list(expected_data)
                         /\ Len(expected_data.list) = Len(data)
                         /\ \A i \in 1..Len(data) :
                               /\ isinstance_int(expected_data.list[i])
                               /\ int_value(expected_data.list[i]) = data[i])
             ELSE IF match_type = "range"
             THEN IF ~isinstance_int(byte_index) THEN Raise("TypeError")
                  ELSE IF int_value(byte_index) >= Len(data) THEN Return(FALSE)
                  ELSE LET byte_value == data[int_value(byte_index) + 1]
                       IN  IF ~isinstance_int(min_value) THEN Raise("TypeError")
                           ELSE IF ~(int_value(min_value) <= byte_value)
                           THEN Return(FALSE)
                           ELSE IF ~isinstance_int(max_value)
                           THEN Raise("TypeError")
                           ELSE Return(byte_value <= int_value(max_value))
             ELSE Return(FALSE)

\* _extract_pgn without its mask: the priority bits stay in the result
_extract_pgn_unmasked(can_id) == can_id \div 256

\* SignalMatcher._extract_pgn: (identifier >> 8) & 0xFFFF
_extract_pgn(can_id) == (can_id \div 256) % 65536

----------------------------------------------------------------------------
\* Python str and int(): a str is a sequence of characters

\* the value of every character that is a digit of some base up to 16
DigitValue ==
    ("0" :> 0) @@ ("1" :> 1) @@ ("2" :> 2) @@ ("3" :> 3) @@ ("4" :> 4)
    @@ ("5" :> 5) @@ ("6" :> 6) @@ ("7" :> 7) @@ ("8" :> 8) @@ ("9" :> 9)
    @@ ("a" :> 10) @@ ("b" :> 11) @@ ("c" :> 12) @@ ("d" :> 13)
    @@ ("e" :> 14) @@ ("f" :> 15)
    @@ ("A" :> 10) @@ ("B" :> 11) @@ ("C" :> 12) @@ ("D" :> 13)
    @@ ("E" :> 14) @@ ("F" :> 15)

\* str.lower() on the letters of the model's alphabet that have a lower case
LowerOf == ("A" :> "a") @@ ("B" :> "b") @@ ("C" :> "c") @@ ("D" :> "d")
           @@ ("E" :> "e") @@ ("F" :> "f") @@ ("X" :> "x")
lower(chars) ==
    [i \in 1..Len(chars) |->
        IF chars[i] \in DOMAIN LowerOf THEN LowerOf[chars[i]] ELSE chars[i]]

\* str.startswith(prefix)
startswith(chars, prefix) ==
    Len(chars) >= Len(prefix) /\ SubSeq(chars, 1, Len(prefix)) = prefix

\* the number a sequence of digits of the base denotes
RECURSIVE PositionalValue(_, _)
PositionalValue(digits, base) ==
    IF digits = <<>> THEN 0
    ELSE PositionalValue(SubSeq(digits, 1, Len(digits) - 1), base) * base
             + DigitValue[digits[Len(digits)]]

\* int(chars, base) for base 10 and 16 on a str without sign, blank or
\* underscore: base 16 allows the prefix 0x or 0X; there must be at least
\* one digit and every character must be a digit of the base
int_of_str(chars, base) ==
    LET digits == IF base = 16 /\ startswith(lower(chars), <<"0", "x">>)
                  THEN SubSeq(chars, 3, Len(chars))
                  ELSE chars
    IN  IF \/ digits = <<>>
           \/ \E i \in 1..Len(digits) :
                 \/ digits[i] \notin DOMAIN DigitValue
                 \/ DigitValue[digits[i]] >= base
        THEN Raise("ValueError")
        ELSE Return(PyInt(PositionalValue(digits, base)))

----------------------------------------------------------------------------
\* config/config_loader.py

\* _parse_value that reads every str as a decimal number
_parse_value_decimal(value) ==
    IF isinstance_str(value) THEN int_of_str(value.str, 10)
    ELSE IF isinstance_int(value) THEN Return(value)
    ELSE Raise("ValueError")

_parse_value(value) ==
    IF isinstance_str(value)
    THEN IF startswith(lower(value.str), <<"0", "x">>)
         THEN int_of_str(value.str, 16)
         ELSE int_of_str(value.str, 10)
    ELSE IF isinstance_int(value) THEN Return(value)
    ELSE Raise("ValueError")

\* _validate_signal with an else branch that accepts
_validate_signal_any_match_type(signal) ==
    IF ~({"name", "can_id", "match_type"} \subseteq DOMAIN signal) THEN FALSE
    ELSE LET match_type == signal["match_type"]
         IN  IF match_type = "exact"
             THEN "data" \in DOMAIN signal /\ isinstance_list(signal["data"])
             ELSE IF match_type = "range"
             THEN {"data_byte_index", "min_value", "max_value"} \subseteq DOMAIN signal
             ELSE TRUE

\* _validate_signal without the isinstance test of data
_validate_signal_any_data(signal) ==
    IF ~({"name", "can_id", "match_type"} \subseteq DOMAIN signal) THEN FALSE
    ELSE LET match_type == signal["match_type"]
         IN  IF match_type = "exact" THEN "data" \in DOMAIN signal
             ELSE IF match_type = "range"
             THEN {"data_byte_index", "min_value", "max_value"} \subseteq DOMAIN signal
             ELSE FALSE

_validate_signal(signal) ==
    IF ~({"name", "can_id", "match_type"} \subseteq DOMAIN signal) THEN FALSE
    ELSE LET match_type == signal["match_type"]
         IN  IF match_type = "exact"
             THEN "data" \in DOMAIN signal /\ isinstance_list(signal["data"])
             ELSE IF match_type = "range"
             THEN {"data_byte_index", "min_value", "max_value"} \subseteq DOMAIN signal
             ELSE FALSE

Raised(result) == "raised" \in DOMAIN result

\* the body of the loop of load_configurations over the signals: can_id,
\* the elements of a data list, min_value and max_value are replaced by
\* their _parse_value, whose exception ends the call
_parse_signal(signal) ==
    LET values == [k \in DOMAIN signal \cap {"can_id", "min_value", "max_value"} |->
                      _parse_value(signal[k])]
        elements == IF "data" \in DOMAIN signal /\ isinstance_list(signal["data"])
                    THEN [i \in 1..Len(signal["data"].list) |->
                             _parse_value(signal["data"].list[i])]
                    ELSE <<>>
    IN  IF \/ \E k \in DOMAIN values : Raised(values[k])
           \/ \E i \in DOMAIN elements : Raised(elements[i])
        THEN Raise("ValueError")
        ELSE Return([k \in DOMAIN signal |->
                        IF k \in DOMAIN values THEN values[k].value
                        ELSE IF k = "data" /\ isinstance_list(signal["data"])
                        THEN PyList([i \in DOMAIN elements |-> elements[i].value])
                        ELSE signal[k]])

\* load_configurations on a file that exists and holds a JSON object with
\* the list file_configurations under the key configurations
load_configurations(file_configurations) ==
    LET signals_of(config) == Get(config, "signals", <<>>)
        results == [c \in DOMAIN file_configurations |->
                       [i \in DOMAIN signals_of(file_configurations[c]) |->
                           _parse_signal(signals_of(file_configurations[c])[i])]]
    IN  IF \E c \in DOMAIN results : \E i \in DOMAIN results[c] :
               Raised(results[c][i])
        THEN Raise("ValueError")
        ELSE Return([c \in DOMAIN file_configurations |->
                        [k \in DOMAIN file_configurations[c] |->
                            IF k = "signals"
                            THEN [i \in DOMAIN results[c] |-> results[c][i].value]
                            ELSE file_configurations[c][k]]])

\* a configuration is a dict and the value under signals is a list
validate_configuration(config) ==
    /\ {"name", "signals"} \subseteq DOMAIN config
    /\ \A i \in 1..Len(config["signals"]) : _validate_signal(config["signals"][i])

----------------------------------------------------------------------------
\* gui/widgets.py

\* LEDIndicator.__init__: an indicator that starts green
LEDIndicator_green == TRUE

\* LEDIndicator.__init__: self.status = False (red)
LEDIndicator_init == FALSE

----------------------------------------------------------------------------
\* gui/monitoring_screen.py

\* _create_signal_tab: signal_matchers[signal_name] = signal_config, in the
\* order of the list, so that the last signal of a name is the one kept
_create_signal_tab(signals) ==
    LET names == {signals[i]["name"] : i \in 1..Len(signals)}
        last(n) == CHOOSE i \in 1..Len(signals) :
                      /\ signals[i]["name"] = n
                      /\ \A j \in (i + 1)..Len(signals) : signals[j]["name"] # n
    IN  [n \in names |-> signals[last(n)]]

\* _rebuild_table: the rows are the buffered messages of the checked CAN IDs
_rebuild_table(display, filtered) ==
    SelectSeq(display, LAMBDA msg_data : msg_data.can_id \in filtered)

\* the filter state st is [active, filtered, table]
_add_can_id_to_filter(st, can_id) ==
    IF can_id \in DOMAIN st.active THEN st
    ELSE [st EXCEPT !.active = (can_id :> 0) @@ st.active,
                    !.filtered = st.filtered \cup {can_id}]

_update_can_id_count(st, can_id) ==
    IF can_id \in DOMAIN st.active
    THEN [st EXCEPT !.active[can_id] = @ + 1]
    ELSE st

\* the loop over messages_to_add of _batch_update_table
RECURSIVE _add_messages(_, _)
_add_messages(st, messages_to_add) ==
    IF messages_to_add = <<>> THEN st
    ELSE LET msg_data == Head(messages_to_add)
             can_id == msg_data.can_id
             st1 == _add_can_id_to_filter(st, can_id)
             st2 == _update_can_id_count(st1, can_id)
             st3 == IF can_id \in st2.filtered
                    THEN [st2 EXCEPT !.table = Append(@, msg_data)]
                    ELSE st2
         IN  _add_messages(st3, Tail(messages_to_add))

\* _batch_update_table without the trim of display_messages
_batch_update_table_untrimmed(paused, b) ==
    IF paused THEN b
    ELSE IF b.pending = <<>> THEN b
    ELSE LET messages_to_add == b.pending
             st == _add_messages(
                       [active |-> b.active, filtered |-> b.filtered,
                        table |-> b.table], messages_to_add)
         IN  [pending |-> <<>>, display |-> b.display \o messages_to_add,
              active |-> st.active, filtered |-> st.filtered,
              table |-> st.table]

\* _batch_update_table on b = [pending, display, active, filtered, table],
\* entered with display_paused = paused
_batch_update_table_when(paused, b) ==
    IF paused THEN b
    ELSE IF b.pending = <<>> THEN b
    ELSE LET messages_to_add == b.pending
             extended == b.display \o messages_to_add
         IN  IF Len(extended) > max_display_messages
             THEN LET overflow == Len(extended) - max_display_messages
                      trimmed == SubSeq(extended, overflow + 1, Len(extended))
                  IN  [b EXCEPT !.pending = <<>>,
                                !.display = trimmed,
                                !.table = _rebuild_table(trimmed, b.filtered)]
             ELSE LET st == _add_messages(
                                [active |-> b.active, filtered |-> b.filtered,
                                 table |-> b.table], messages_to_add)
                  IN  [pending |-> <<>>, display |-> extended,
                       active |-> st.active, filtered |-> st.filtered,
                       table |-> st.table]

_batch_update_table(b) == _batch_update_table_when(display_paused, b)

Buffers ==
    [pending |-> pending_display_messages, display |-> display_messages,
     active |-> active_can_ids, filtered |-> filtered_can_ids, table |-> log_table]

SetBuffers(b) ==
    /\ pending_display_messages' = b.pending
    /\ display_messages' = b.display
    /\ active_can_ids' = b.active
    /\ filtered_can_ids' = b.filtered
    /\ log_table' = b.table

\* no frame handled yet
NoMessage == [arbitration_id |-> 0, data |-> <<>>]

\* _load_selected_config without its call of validate_configuration
_load_selected_config_unvalidated(configuration) ==
    screen = "config"

\* ConfigSelectionScreen._load_selected_config: configuration_selected is
\* emitted for a configuration that passes validate_configuration
_load_selected_config(configuration) ==
    /\ screen = "config"
    /\ validate_configuration(configuration)

\* MonitoringScreen.__init__ with _create_signal_tab: the fields of a new
\* screen, one new SignalStatusWidget (and LEDIndicator) per signal name
MonitoringScreen_init(configuration) ==
    /\ signal_matchers' = _create_signal_tab(
            [i \in 1..Len(configuration["signals"]) |->
                SignalOfIntegers(configuration["signals"][i])])
    /\ led' = [n \in DOMAIN signal_matchers' |-> LEDIndicator_init]
    /\ display_messages' = <<>>
    /\ pending_display_messages' = <<>>
    /\ log_buffer' = <<>>
    /\ is_logging' = FALSE
    /\ display_paused' = FALSE
    /\ last_message_time' = <<>>
    /\ active_can_ids' = <<>>
    /\ filtered_can_ids' = {}
    /\ log_table' = <<>>
    /\ message' = NoMessage
    /\ notified' = {}
    /\ clock' = 0

\* ConfigSelectionScreen.__init__ with _load_configurations: the list shows
\* what load_configurations returns; when it raises, or returns no
\* configuration, the Start Monitoring button is disabled
_load_configurations ==
    /\ ~screen_built
    /\ screen_built' = TRUE
    /\ LET result == load_configurations(config_file)
       IN  IF Raised(result)
           THEN /\ load_button_enabled' = FALSE
                /\ message_box' = "Error"
                /\ UNCHANGED configurations
           ELSE /\ configurations' = result.value
                /\ load_button_enabled' = (result.value # <<>>)
                /\ UNCHANGED message_box
    /\ UNCHANGED <<config_file, emitted, session_vars, match_vars, pgn_vars,
                   validate_vars, parse_vars, recv_vars>>

\* load_button.clicked with the row current_row selected:
\* _load_selected_config emits configuration_selected or reports the
\* configuration as invalid
load_button_clicked(current_row) ==
    /\ screen_built
    /\ load_button_enabled
    /\ current_row \in 1..Len(configurations)
    /\ IF _load_selected_config(configurations[current_row])
       THEN /\ emitted' = <<configurations[current_row]>>
            /\ UNCHANGED message_box
       ELSE /\ message_box' = "Invalid Configuration"
            /\ UNCHANGED emitted
    /\ UNCHANGED <<config_file, screen_built, configurations,
                   load_button_enabled, session_vars, match_vars, pgn_vars,
                   validate_vars, parse_vars, recv_vars>>

\* MainWindow._on_configuration_selected: a new MonitoringScreen is created
\* for the selected configuration and shown
_on_configuration_selected(configuration) ==
    /\ _load_selected_config(configuration)
    /\ sessions < MaxSessions
    /\ MonitoringScreen_init(configuration)
    /\ screen' = "monitoring"
    /\ sessions' = sessions + 1
    /\ UNCHANGED <<match_vars, pgn_vars, validate_vars, parse_vars,
                   load_vars, recv_vars>>

\* the body of MonitoringScreen._on_message_received on the fields of the
\* screen; the time of arrival is the number of the frame, and a cycle time
\* of 0 stands for None
_on_message_received_slot(msg) ==
    /\ LET can_id == msg.arbitration_id
           current_time == clock + 1
           cycle_time == IF can_id \in DOMAIN last_message_time
                         THEN current_time - last_message_time[can_id]
                         ELSE 0
           msg_data == [timestamp |-> current_time, can_id |-> can_id,
                        data |-> msg.data, cycle_time |-> cycle_time]
           queued == [Buffers EXCEPT !.pending = Append(@, msg_data)]
       IN  /\ clock' = current_time
           /\ last_message_time' =
                  (can_id :> current_time) @@ last_message_time
           /\ log_buffer' = IF is_logging THEN Append(log_buffer, msg_data)
                            ELSE log_buffer
           /\ IF Len(queued.pending) > max_pending_messages
              THEN SetBuffers(_batch_update_table(queued))
              ELSE SetBuffers(queued)
           /\ led' = [signal_name \in DOMAIN signal_matchers |->
                         match_signal(signal_matchers[signal_name],
                                      msg.arbitration_id, msg.data)]
           /\ notified' = DOMAIN signal_matchers
           /\ message' = msg
    /\ UNCHANGED <<signal_matchers, is_logging, display_paused>>

\* MonitoringScreen._on_message_received called with the frame msg
_on_message_received(msg) ==
    /\ screen = "monitoring"
    /\ clock < MaxFrames
    /\ _on_message_received_slot(msg)
    /\ UNCHANGED <<screen, sessions, match_vars, pgn_vars, validate_vars,
                   parse_vars, load_vars, recv_vars>>

\* display_update_timer.timeout, every 16 ms while the screen is shown
DisplayUpdateTimer ==
    /\ screen = "monitoring"
    /\ SetBuffers(_batch_update_table(Buffers))
    /\ UNCHANGED <<screen, signal_matchers, led, log_buffer, is_logging,
                   display_paused, last_message_time, message, notified,
                   clock, sessions, match_vars, pgn_vars, validate_vars, parse_vars,
                   load_vars, recv_vars>>

\* MonitoringScreen._on_back_clicked and MainWindow._on_back_to_config
_on_back_clicked ==
    /\ screen = "monitoring"
    /\ display_paused' = FALSE
    /\ is_logging' = FALSE
    /\ screen' = "config"
    /\ UNCHANGED <<signal_matchers, led, display_messages,
                   pending_display_messages, log_buffer, last_message_time,
                   active_can_ids, filtered_can_ids, log_table, message,
                   notified, clock, sessions, match_vars, pgn_vars,
                   validate_vars, parse_vars, load_vars, recv_vars>>

----------------------------------------------------------------------------
\* Inputs of a monitoring session

\* 0x119 exact [0x06]; 0x18F00401 J1939, byte 0 in 0x06..0x10; 0x119 with
\* the byte offset under byte_index only, which validation rejects
SessionPolicies ==
    { [can_id |-> PyInt(281), match_type |-> "exact",
       data |-> PyList(<<PyInt(6)>>)],
      [can_id |-> PyInt(418382849), protocol |-> "j1939",
       match_type |-> "range", data_byte_index |-> PyInt(0),
       min_value |-> PyInt(6), max_value |-> PyInt(16)],
      [can_id |-> PyInt(281), match_type |-> "range", byte_index |-> PyInt(0),
       min_value |-> PyInt(6), max_value |-> PyInt(16)] }

SessionSignals ==
    {[name |-> n] @@ policy : n \in {"A", "B"}, policy \in SessionPolicies}

Configurations ==
    {[name |-> "cfg", signals |-> signals] :
        signals \in SeqsUpTo(SessionSignals, MaxSignals)}

\* 0x119 with the expected byte and with another one; 0x18F00401 and
\* 0x18F00402 (the same PGN from source 0x02) with a byte in range
SessionFrames ==
    { [arbitration_id |-> 281, data |-> <<6>>],
      [arbitration_id |-> 281, data |-> <<5>>],
      [arbitration_id |-> 418382849, data |-> <<6>>],
      [arbitration_id |-> 418382850, data |-> <<6>>] }

----------------------------------------------------------------------------
\* Inputs of one call of match_signal

\* 0x119, 0x18F00401 (J1939: priority 6, PGN 0xF004, source 0x01)
RuleIds == {281, 418382849}
\* 0x119, 0x123, 0x18F00401, 0x18F00402 (source 0x02), 0x1CF004FF (priority 7,
\* source 0xFF), 0x18F00501 (PGN 0xF005)
FrameIds == {281, 291, 418382849, 418382850, 485491967, 418383105}

ExactPolicies == {[match_type |-> "exact", data |-> d] : d \in Payloads}
RangePolicies ==
    {(key :> i) @@ [match_type |-> "range", min_value |-> lo, max_value |-> hi] :
        key \in {"data_byte_index", "byte_index"}, i \in 0..MaxLen,
        lo \in RangeLimits, hi \in RangeLimits}
BitPolicies ==
    {[match_type |-> "bit", byte_index |-> i, bit_index |-> b, bit_value |-> v] :
        i \in 0..MaxLen, b \in {0, 3, 4}, v \in {0, 1}}
Policies == ExactPolicies \cup RangePolicies \cup BitPolicies

\* a rule without the key protocol is a Standard rule; the J1939 rules are
\* the ones on the 29-bit identifier
SignalConfigs ==
    {[name |-> "S", can_id |-> id] @@ policy : id \in RuleIds, policy \in Policies}
    \cup {[name |-> "S", can_id |-> 418382849, protocol |-> "j1939"] @@ policy :
            policy \in Policies}

MatchCalls ==
    {[signal_config |-> r, can_id |-> id, data |-> d] :
        r \in SignalConfigs, id \in FrameIds, d \in Payloads}

----------------------------------------------------------------------------
\* Inputs of validate_configuration

\* the dict with key k when present, the empty dict otherwise
Field(present, k, v) == IF present THEN k :> v ELSE <<>>

\* every subset of name, can_id and match_type; regex is no match type of
\* the program
MatchTypes == {"exact", "range", "bit", "regex"}
RequiredParts ==
    {Field(n, "name", "S") @@ Field(c, "can_id", PyInt(281))
        @@ Field(m, "match_type", t) :
        n \in BOOLEAN, c \in BOOLEAN, m \in BOOLEAN, t \in MatchTypes}

\* data absent, a list (empty or not), or a value that is no list
DataParts ==
    {<<>>} \cup {[data |-> d] :
                   d \in {PyList(<<>>), PyList(<<PyInt(6), PyInt(16)>>),
                          PyInt(6), PyNone}}

\* every subset of the keys of the range and bit policies
IndexParts ==
    {Field(a, "data_byte_index", PyInt(0)) @@ Field(b, "byte_index", PyInt(0))
        @@ Field(c, "min_value", PyInt(6)) @@ Field(d, "max_value", PyInt(16))
        @@ Field(e, "bit_index", PyInt(3)) @@ Field(f, "bit_value", PyInt(1)) :
        a \in BOOLEAN, b \in BOOLEAN, c \in BOOLEAN, d \in BOOLEAN,
        e \in BOOLEAN, f \in BOOLEAN}

ValidationSignals ==
    {r @@ d @@ x : r \in RequiredParts, d \in DataParts, x \in IndexParts}

\* the signals that follow the first one: an exact rule, and a rule
\* without can_id
OtherSignals ==
    {[name |-> "T", can_id |-> PyInt(281), match_type |-> "exact",
      data |-> PyList(<<PyInt(6)>>)],
     [name |-> "U", match_type |-> "exact", data |-> PyList(<<PyInt(6)>>)]}

\* configurations of 1..MaxSignals signals, and dicts without name or signals
ValidationConfigs ==
    {[name |-> "cfg", signals |-> <<first>> \o rest] :
        first \in ValidationSignals,
        rest \in SeqsUpTo(OtherSignals, MaxSignals - 1)}
    \cup {[name |-> "cfg", signals |-> <<>>], [name |-> "cfg"],
          [signals |-> <<>>]}

----------------------------------------------------------------------------
\* Inputs of _parse_value

\* decimal digits, hex digits of either case, both spellings of the x of
\* the prefix, and a letter that is no digit
Chars == {"0", "1", "a", "F", "x", "X", "g"}
Strings == SeqsUpTo(Chars, MaxStrLen)

ParseInputs ==
    {PyInt(n) : n \in {0, 6, 281, 418382849}}
        \cup {PyStr(chars) : chars \in Strings}
        \cup {PyNone, PyList(<<>>), PyList(<<PyInt(6)>>), PyBool(TRUE),
              PyBool(FALSE)}

----------------------------------------------------------------------------
\* Inputs of load_configurations

\* a numeric field as the file may give it: the int 6, the hex string 0x10,
\* and null, which is no number
FileNumbers == {PyInt(6), PyStr(<<"0", "x", "1", "0">>), PyNone}

FileExactSignals ==
    {[name |-> "S", can_id |-> id, match_type |-> "exact", data |-> PyList(d)] :
        id \in FileNumbers, d \in SeqsUpTo(FileNumbers, 1)}
FileRangeSignals ==
    {[name |-> "S", can_id |-> id, match_type |-> "range",
      data_byte_index |-> i, min_value |-> lo, max_value |-> hi] :
        id \in FileNumbers, i \in FileNumbers, lo \in FileNumbers,
        hi \in FileNumbers}
FileBitSignals ==
    {[name |-> "S", can_id |-> PyInt(281), match_type |-> "bit",
      byte_index |-> i, bit_index |-> b, bit_value |-> v] :
        i \in FileNumbers, b \in FileNumbers, v \in FileNumbers}
\* rules that lack a field: exact without data, range without min_value
FileIncompleteSignals ==
    {[name |-> "S", can_id |-> PyInt(281), match_type |-> "exact"],
     [name |-> "S", can_id |-> PyInt(281), match_type |-> "range",
      data_byte_index |-> PyInt(0), max_value |-> PyInt(16)]}
FileSignals ==
    FileExactSignals \cup FileRangeSignals \cup FileBitSignals
        \cup FileIncompleteSignals

\* the signal of the other configuration of a file of two: a well-formed
\* exact rule, one with null for can_id, one without data
OtherFileSignals ==
    {[name |-> "T", can_id |-> PyStr(<<"0", "x", "1", "0">>),
      match_type |-> "exact", data |-> PyList(<<PyInt(6)>>)],
     [name |-> "T", can_id |-> PyNone, match_type |-> "exact",
      data |-> PyList(<<PyInt(6)>>)],
     [name |-> "T", can_id |-> PyInt(281), match_type |-> "exact"]}

\* files of one configuration and of two, each of one signal
ConfigFiles ==
    {<<[name |-> "one", signals |-> <<s>>]>> : s \in FileSignals}
    \cup {<<[name |-> "one", signals |-> <<s>>],
            [name |-> "two", signals |-> <<t>>]>> :
              s \in FileSignals, t \in OtherFileSignals}
    \cup {<<[name |-> "one", signals |-> <<t>>],
            [name |-> "two", signals |-> <<s>>]>> :
              s \in FileSignals, t \in OtherFileSignals}

----------------------------------------------------------------------------
\* Inputs of live matching on a loaded file

\* the representations of a number a file may use: 6 as an int and as a
\* decimal string, 16 as a hex string
LiveNumbers == {PyInt(6), PyStr(<<"6">>), PyStr(<<"0", "x", "1", "0">>)}

LiveSignals ==
    {[name |-> "S", can_id |-> id, match_type |-> "exact", data |-> PyList(d)] :
        id \in LiveNumbers, d \in SeqsUpTo(LiveNumbers, 1)}
    \cup {[name |-> "S", can_id |-> id, match_type |-> "range",
           data_byte_index |-> i, min_value |-> lo, max_value |-> hi] :
             id \in LiveNumbers, i \in {PyInt(0), PyInt(1), PyStr(<<"1">>),
                                        PyStr(<<"0", "x", "0">>)},
             lo \in LiveNumbers, hi \in LiveNumbers}

\* files of one configuration of one signal
LiveFiles == {<<[name |-> "one", signals |-> <<s>>]>> : s \in LiveSignals}

\* the identifiers 6 and 16 of the rules, and another one
LiveFrameIds == {6, 16, 281}

----------------------------------------------------------------------------
\* Inputs of _extract_pgn: 29-bit identifiers, by field

Priorities == {0, 3, 6, 7}        \* bits 26-28
DataPages == {0, 1, 2, 3}         \* bits 24-25
PduFormats == {240, 254}          \* bits 16-23
PduSpecifics == {4, 5}            \* bits 8-15
SourceAddresses == {0, 1, 255}    \* bits 0-7

Identifiers ==
    {p * 67108864 + dp * 16777216 + pf * 65536 + ps * 256 + sa :
        p \in Priorities, dp \in DataPages, pf \in PduFormats,
        ps \in PduSpecifics, sa \in SourceAddresses}

----------------------------------------------------------------------------
\* The state before any screen, call or extraction

\* the fields of the screen the display controls leave alone
display_kept == <<screen, signal_matchers, led, last_message_time, message,
                  notified, clock, sessions>>

other_vars == <<match_vars, pgn_vars, validate_vars, parse_vars, load_vars,
                recv_vars>>

\* MonitoringScreen._pause_display (the Pause button is enabled while the
\* display is not paused)
_pause_display ==
    /\ screen = "monitoring"
    /\ ~display_paused
    /\ display_paused' = TRUE
    /\ UNCHANGED <<display_messages, pending_display_messages, log_buffer,
                   is_logging, active_can_ids, filtered_can_ids, log_table,
                   display_kept, other_vars>>

\* _resume_display without its call of _batch_update_table
_resume_display_flag_only ==
    /\ screen = "monitoring"
    /\ display_paused
    /\ display_paused' = FALSE
    /\ UNCHANGED <<display_messages, pending_display_messages, log_buffer,
                   is_logging, active_can_ids, filtered_can_ids, log_table,
                   display_kept, other_vars>>

\* MonitoringScreen._resume_display (the Resume button is enabled while the
\* display is paused): the flag is cleared, then the pending messages are
\* processed
_resume_display ==
    /\ screen = "monitoring"
    /\ display_paused
    /\ display_paused' = FALSE
    /\ IF pending_display_messages # <<>>
       THEN SetBuffers(_batch_update_table_when(FALSE, Buffers))
       ELSE SetBuffers(Buffers)
    /\ UNCHANGED <<log_buffer, is_logging, display_kept, other_vars>>

\* _start_logging without log_buffer.clear()
_start_logging_keeping_buffer ==
    /\ screen = "monitoring"
    /\ ~is_logging
    /\ is_logging' = TRUE
    /\ UNCHANGED <<log_buffer, display_messages, pending_display_messages,
                   display_paused, active_can_ids, filtered_can_ids,
                   log_table, display_kept, other_vars>>

\* MonitoringScreen._start_logging (the Start Log button is enabled while
\* not logging)
_start_logging ==
    /\ screen = "monitoring"
    /\ ~is_logging
    /\ is_logging' = TRUE
    /\ log_buffer' = <<>>
    /\ UNCHANGED <<display_messages, pending_display_messages,
                   display_paused, active_can_ids, filtered_can_ids,
                   log_table, display_kept, other_vars>>

\* MonitoringScreen._save_log_to_csv: the buffer after the call; written is
\* TRUE when the user chose a file and the file was written
_save_log_to_csv(buffer, written) ==
    IF buffer = <<>> THEN buffer
    ELSE IF written THEN <<>>
    ELSE buffer

\* MonitoringScreen._stop_logging (the Stop Log button is enabled while
\* logging)
_stop_logging(written) ==
    /\ screen = "monitoring"
    /\ is_logging
    /\ is_logging' = FALSE
    /\ log_buffer' = _save_log_to_csv(log_buffer, written)
    /\ UNCHANGED <<display_messages, pending_display_messages,
                   display_paused, active_can_ids, filtered_can_ids,
                   log_table, display_kept, other_vars>>

\* MonitoringScreen._rebuild_filtered_table
_rebuild_filtered_table(display, filtered) ==
    SelectSeq(display, LAMBDA msg_data : msg_data.can_id \in filtered)

\* MonitoringScreen._on_filter_changed: the check box of can_id changed to
\* checked
_on_filter_changed(can_id, checked) ==
    /\ screen = "monitoring"
    /\ can_id \in DOMAIN active_can_ids
    /\ checked = (can_id \notin filtered_can_ids)
    /\ filtered_can_ids' = IF checked THEN filtered_can_ids \cup {can_id}
                           ELSE filtered_can_ids \ {can_id}
    /\ log_table' = _rebuild_filtered_table(display_messages, filtered_can_ids')
    /\ UNCHANGED <<display_messages, pending_display_messages, log_buffer,
                   is_logging, display_paused, active_can_ids, display_kept,
                   other_vars>>

\* MonitoringScreen._select_all_filters: every check box is checked, and
\* each one that changes runs _on_filter_changed
_select_all_filters ==
    /\ screen = "monitoring"
    /\ filtered_can_ids # DOMAIN active_can_ids
    /\ filtered_can_ids' = filtered_can_ids \cup DOMAIN active_can_ids
    /\ log_table' = _rebuild_filtered_table(display_messages, filtered_can_ids')
    /\ UNCHANGED <<display_messages, pending_display_messages, log_buffer,
                   is_logging, display_paused, active_can_ids, display_kept,
                   other_vars>>

\* MonitoringScreen._deselect_all_filters
_deselect_all_filters ==
    /\ screen = "monitoring"
    /\ filtered_can_ids \cap DOMAIN active_can_ids # {}
    /\ filtered_can_ids' = filtered_can_ids \ DOMAIN active_can_ids
    /\ log_table' = _rebuild_filtered_table(display_messages, filtered_can_ids')
    /\ UNCHANGED <<display_messages, pending_display_messages, log_buffer,
                   is_logging, display_paused, active_can_ids, display_kept,
                   other_vars>>

----------------------------------------------------------------------------
\* PCANInterface (canbus/pcan_interface.py), its receive threads and the
\* delivery of message_received through the Qt event queue

checked_vars == <<match_vars, pgn_vars, validate_vars, parse_vars, load_vars>>

\* the fields of the interface, with the receive threads started so far
PCAN ==
    [bus |-> bus, running |-> running, receive_thread |-> receive_thread,
     loops |-> loops, error |-> error]

SetPCAN(p) ==
    /\ bus' = p.bus
    /\ running' = p.running
    /\ receive_thread' = p.receive_thread
    /\ loops' = p.loops
    /\ error' = p.error

\* a thread at the place pc of _receive_loop, holding the frame it read
LoopAt(pc, msg, seq) == [pc |-> pc, msg |-> msg, seq |-> seq]

\* the threads whose _receive_loop has not returned
alive(p) == {t \in DOMAIN p.loops : p.loops[t].pc # "done"}

\* PCANInterface.connect; opened is FALSE when can.Bus raises
connect(p, opened) ==
    IF opened THEN [p EXCEPT !.bus = "open"]
    ELSE [p EXCEPT !.error = "Failed to connect"]

\* PCANInterface.start_receiving
start_receiving(p) ==
    IF p.bus = "None" THEN [p EXCEPT !.error = "Not connected to CAN bus"]
    ELSE IF p.running THEN p
    ELSE LET t == Cardinality(DOMAIN p.loops) + 1
         IN  [p EXCEPT !.running = TRUE,
                       !.receive_thread = t,
                       !.loops = (t :> LoopAt("test", NoMessage, 0)) @@ @]

\* PCANInterface.stop_receiving up to receive_thread.join(timeout=2.0)
stop_receiving_begin(p) == [p EXCEPT !.running = FALSE]

\* PCANInterface.stop_receiving after the join has returned, whether the
\* thread ended or the two seconds are over
stop_receiving_end(p) == [p EXCEPT !.receive_thread = 0]

\* receive_thread.join(timeout=2.0) returns: the thread has ended, or the
\* two seconds are over, the thread is still inside bus.recv, and by then
\* any other thread has ended or is inside bus.recv too
join_returns(p) ==
    \/ p.loops[p.receive_thread].pc = "done"
    \/ \A t \in DOMAIN p.loops : p.loops[t].pc \in {"done", "recv"}

\* PCANInterface.disconnect after stop_receiving; raises is TRUE when
\* bus.shutdown raises
disconnect_end(p, raises) ==
    IF p.bus = "None" THEN p
    ELSE [p EXCEPT !.bus = "None",
                   !.error = IF raises THEN "Error during disconnect" ELSE @]

\* MonitoringScreen._connect_to_can
_connect_to_can(p, opened) ==
    IF opened THEN start_receiving(connect(p, TRUE))
    ELSE connect(p, FALSE)

\* the threads the model lets start_receiving create
ThreadIds == {1, 2}

\* start_receiving would start no thread, or the model has one left
MayStart(p) == p.running \/ DOMAIN p.loops # ThreadIds

\* ---- one call of a method of the interface from the GUI thread ----

connect_call(opened) ==
    /\ gui = "idle"
    /\ SetPCAN(connect(PCAN, opened))
    /\ UNCHANGED <<reads, event_queue, gui, session_vars, checked_vars>>

start_receiving_call ==
    /\ gui = "idle"
    /\ MayStart(PCAN)
    /\ SetPCAN(start_receiving(PCAN))
    /\ UNCHANGED <<reads, event_queue, gui, session_vars, checked_vars>>

stop_receiving_call ==
    /\ gui = "idle"
    /\ SetPCAN(stop_receiving_begin(PCAN))
    /\ gui' = IF receive_thread # 0 THEN "stop_receiving" ELSE "idle"
    /\ UNCHANGED <<reads, event_queue, session_vars, checked_vars>>

stop_receiving_joined ==
    /\ gui = "stop_receiving"
    /\ join_returns(PCAN)
    /\ SetPCAN(stop_receiving_end(PCAN))
    /\ gui' = "idle"
    /\ UNCHANGED <<reads, event_queue, session_vars, checked_vars>>

disconnect_call(raises) ==
    /\ gui = "idle"
    /\ IF receive_thread # 0
       THEN /\ SetPCAN(stop_receiving_begin(PCAN))
            /\ gui' = "disconnect"
       ELSE /\ SetPCAN(disconnect_end(stop_receiving_begin(PCAN), raises))
            /\ gui' = "idle"
    /\ UNCHANGED <<reads, event_queue, session_vars, checked_vars>>

disconnect_joined(raises) ==
    /\ gui = "disconnect"
    /\ join_returns(PCAN)
    /\ SetPCAN(disconnect_end(stop_receiving_end(PCAN), raises))
    /\ gui' = "idle"
    /\ UNCHANGED <<reads, event_queue, session_vars, checked_vars>>

\* ---- PCANInterface._receive_loop in the thread t ----

\* while self.running and self.bus
_receive_loop_test(t) ==
    /\ t \in DOMAIN loops
    /\ loops[t].pc = "test"
    /\ loops' = [loops EXCEPT ![t].pc =
                    IF running /\ bus # "None" THEN "recv" ELSE "done"]
    /\ UNCHANGED <<bus, running, receive_thread, reads, event_queue, gui,
                   error, session_vars, checked_vars>>

\* message = self.bus.recv(timeout=0.1): a frame, None after the timeout,
\* or an exception (always one when bus is None by now)
_receive_loop_recv(t, outcome, msg) ==
    /\ t \in DOMAIN loops
    /\ loops[t].pc = "recv"
    /\ bus = "None" => outcome = "raise"
    /\ CASE outcome = "message" ->
              /\ reads < MaxFrames
              /\ reads' = reads + 1
              /\ loops' = [loops EXCEPT ![t] = LoopAt("emit", msg, reads + 1)]
              /\ UNCHANGED error
         [] outcome = "None" ->
              /\ loops' = [loops EXCEPT ![t].pc = "test"]
              /\ UNCHANGED <<reads, error>>
         [] outcome = "raise" ->
              /\ loops' = [loops EXCEPT ![t].pc = "test"]
              /\ error' = IF running THEN "Error receiving message" ELSE error
              /\ UNCHANGED reads
    /\ UNCHANGED <<bus, running, receive_thread, event_queue, gui,
                   session_vars, checked_vars>>

\* a MonitoringScreen exists, with its slot connected to message_received
receiver_connected == screen \in {"monitoring", "ended"}

MessageEvent(msg, seq) == [kind |-> "message", msg |-> msg, seq |-> seq]

DeferredDeleteEvent == [kind |-> "DeferredDelete"]

\* message_received.emit(message) with the slot called in the emitting
\* thread (a direct connection)
_receive_loop_emit_direct(t) ==
    /\ t \in DOMAIN loops
    /\ loops[t].pc = "emit"
    /\ loops' = [loops EXCEPT ![t] = LoopAt("test", NoMessage, 0)]
    /\ IF receiver_connected
       THEN /\ _on_message_received_slot(loops[t].msg)
            /\ UNCHANGED <<screen, sessions>>
       ELSE UNCHANGED session_vars
    /\ UNCHANGED <<bus, running, receive_thread, reads, event_queue, gui,
                   error, checked_vars>>

\* self.message_received.emit(message): the receiver lives in the GUI
\* thread, so the call of its slot is posted to the event queue
_receive_loop_emit(t) ==
    /\ t \in DOMAIN loops
    /\ loops[t].pc = "emit"
    /\ loops' = [loops EXCEPT ![t] = LoopAt("test", NoMessage, 0)]
    /\ event_queue' =
          IF receiver_connected
          THEN Append(event_queue, MessageEvent(loops[t].msg, loops[t].seq))
          ELSE event_queue
    /\ UNCHANGED <<bus, running, receive_thread, reads, gui, error,
                   session_vars, checked_vars>>

\* ---- the GUI thread of the application ----

\* MainWindow._on_configuration_selected with MonitoringScreen.__init__,
\* which ends with _setup_signals and _connect_to_can
MonitoringScreen_new(configuration, opened) ==
    /\ gui = "idle"
    /\ _load_selected_config(configuration)
    /\ sessions < MaxSessions
    /\ MayStart(connect(PCAN, opened))
    /\ MonitoringScreen_init(configuration)
    /\ screen' = "monitoring"
    /\ sessions' = sessions + 1
    /\ SetPCAN(_connect_to_can(PCAN, opened))
    /\ UNCHANGED <<reads, event_queue, gui, checked_vars>>

\* the event loop calls the slot for the oldest posted message_received
deliver_message ==
    /\ gui = "idle"
    /\ event_queue # <<>>
    /\ Head(event_queue).kind = "message"
    /\ receiver_connected
    /\ _on_message_received_slot(Head(event_queue).msg)
    /\ event_queue' = Tail(event_queue)
    /\ UNCHANGED <<screen, sessions, bus, running, receive_thread, loops,
                   reads, gui, error, checked_vars>>

\* the event loop reaches the DeferredDelete of the screen that was left:
\* the screen is deleted, and with it the events still posted to it
deliver_deferred_delete ==
    /\ gui = "idle"
    /\ event_queue # <<>>
    /\ Head(event_queue).kind = "DeferredDelete"
    /\ screen' = "config"
    /\ event_queue' = <<>>
    /\ UNCHANGED <<signal_matchers, led, display_messages,
                   pending_display_messages, log_buffer, is_logging,
                   display_paused, last_message_time, active_can_ids,
                   filtered_can_ids, log_table, message, notified, clock,
                   sessions, bus, running, receive_thread, loops, reads, gui,
                   error, checked_vars>>

\* the event loop calls _batch_update_table for display_update_timer
display_update_timer_timeout ==
    /\ gui = "idle"
    /\ DisplayUpdateTimer

\* MainWindow._on_back_to_config: the screen is removed and deleteLater is
\* called on it
_on_back_to_config ==
    /\ screen' = "ended"
    /\ event_queue' = Append(event_queue, DeferredDeleteEvent)

\* MonitoringScreen._on_back_clicked up to the join in stop_receiving, or to
\* its end when there is no thread to join
_on_back_clicked_call(raises) ==
    /\ gui = "idle"
    /\ screen = "monitoring"
    /\ display_paused' = FALSE
    /\ is_logging' = FALSE
    /\ IF receive_thread # 0
       THEN /\ SetPCAN(stop_receiving_begin(PCAN))
            /\ gui' = "_on_back_clicked"
            /\ UNCHANGED <<screen, event_queue>>
       ELSE /\ SetPCAN(disconnect_end(stop_receiving_begin(PCAN), raises))
            /\ gui' = "idle"
            /\ _on_back_to_config
    /\ UNCHANGED <<signal_matchers, led, display_messages,
                   pending_display_messages, log_buffer, last_message_time,
                   active_can_ids, filtered_can_ids, log_table, message,
                   notified, clock, sessions, reads, checked_vars>>

\* MonitoringScreen._on_back_clicked from the return of the join: the rest
\* of disconnect, then back_to_config.emit()
_on_back_clicked_joined(raises) ==
    /\ gui = "_on_back_clicked"
    /\ join_returns(PCAN)
    /\ SetPCAN(disconnect_end(stop_receiving_end(PCAN), raises))
    /\ gui' = "idle"
    /\ _on_back_to_config
    /\ UNCHANGED <<signal_matchers, led, display_messages,
                   pending_display_messages, log_buffer, is_logging,
                   display_paused, last_message_time, active_can_ids,
                   filtered_can_ids, log_table, message, notified, clock,
                   sessions, reads, checked_vars>>

\* MainWindow.closeEvent up to the join in stop_receiving, or to its end:
\* the window closes and the event loop ends
closeEvent_call(raises) ==
    /\ gui = "idle"
    /\ screen \in {"config", "monitoring", "ended"}
    /\ IF receive_thread # 0
       THEN /\ SetPCAN(stop_receiving_begin(PCAN))
            /\ gui' = "closeEvent"
            /\ UNCHANGED screen
       ELSE /\ SetPCAN(disconnect_end(stop_receiving_begin(PCAN), raises))
            /\ gui' = "idle"
            /\ screen' = "closed"
    /\ UNCHANGED <<signal_matchers, led, display_messages,
                   pending_display_messages, log_buffer, is_logging,
                   display_paused, last_message_time, active_can_ids,
                   filtered_can_ids, log_table, message, notified, clock,
                   sessions, reads, event_queue, checked_vars>>

closeEvent_joined(raises) ==
    /\ gui = "closeEvent"
    /\ join_returns(PCAN)
    /\ SetPCAN(disconnect_end(stop_receiving_end(PCAN), raises))
    /\ gui' = "idle"
    /\ screen' = "closed"
    /\ UNCHANGED <<signal_matchers, led, display_messages,
                   pending_display_messages, log_buffer, is_logging,
                   display_paused, last_message_time, active_can_ids,
                   filtered_can_ids, log_table, message, notified, clock,
                   sessions, reads, event_queue, checked_vars>>

SessionIdle ==
    /\ screen = "config"
    /\ signal_matchers = <<>>
    /\ led = <<>>
    /\ display_messages = <<>>
    /\ pending_display_messages = <<>>
    /\ log_buffer = <<>>
    /\ is_logging = FALSE
    /\ display_paused = FALSE
    /\ last_message_time = <<>>
    /\ active_can_ids = <<>>
    /\ filtered_can_ids = {}
    /\ log_table = <<>>
    /\ message = NoMessage
    /\ notified = {}
    /\ clock = 0
    /\ sessions = 0

MatchIdle ==
    /\ call = [signal_config |-> [name |-> "S"], can_id |-> 0, data |-> <<>>]
    /\ called = FALSE
    /\ is_match = FALSE
    /\ raised = FALSE

PgnIdle ==
    /\ pgn_in = <<0, 0>>
    /\ pgn_done = FALSE
    /\ pgn_out = <<0, 0>>

NoValidation == [configuration |-> FALSE, signals |-> <<>>]

ValidateIdle ==
    /\ candidate = [name |-> "cfg", signals |-> <<>>]
    /\ validated = FALSE
    /\ validation = NoValidation

ParseIdle ==
    /\ parse_in = PyNone
    /\ parsed = FALSE
    /\ parse_out = Return(PyNone)

\* a new ConfigSelectionScreen before _load_configurations
ConfigSelectionScreen_new ==
    /\ screen_built = FALSE
    /\ configurations = <<>>
    /\ load_button_enabled = TRUE
    /\ message_box = ""
    /\ emitted = <<>>

LoadIdle ==
    /\ config_file = <<>>
    /\ ConfigSelectionScreen_new

\* PCANInterface.__init__; no event is posted and the GUI thread is idle
PCANInterface_init ==
    /\ bus = "None"
    /\ running = FALSE
    /\ receive_thread = 0
    /\ loops = <<>>
    /\ reads = 0
    /\ event_queue = <<>>
    /\ gui = "idle"
    /\ error = ""

----------------------------------------------------------------------------
\* Spec: the application with its monitoring sessions

Init ==
    /\ SessionIdle /\ MatchIdle /\ PgnIdle /\ ValidateIdle /\ ParseIdle
    /\ LoadIdle /\ PCANInterface_init

Next ==
    \/ \E configuration \in Configurations : _on_configuration_selected(configuration)
    \/ \E msg \in SessionFrames : _on_message_received(msg)
    \/ DisplayUpdateTimer
    \/ _on_back_clicked

Spec == Init /\ [][Next]_vars

----------------------------------------------------------------------------
\* MatchSpec: match_signal applied to one rule and one frame

MatchInit ==
    /\ call \in MatchCalls
    /\ called = FALSE
    /\ is_match = FALSE
    /\ raised = FALSE
    /\ SessionIdle
    /\ PCANInterface_init
    /\ PgnIdle
    /\ ValidateIdle
    /\ ParseIdle
    /\ LoadIdle

MatchSignalCall ==
    /\ ~called
    /\ raised' = match_signal_raises(call.signal_config, call.can_id, call.data)
    /\ is_match' = IF raised' THEN FALSE
                   ELSE match_signal(call.signal_config, call.can_id, call.data)
    /\ called' = TRUE
    /\ UNCHANGED <<call, session_vars, pgn_vars, validate_vars, parse_vars,
                   load_vars, recv_vars>>

MatchNext == MatchSignalCall

MatchSpec == MatchInit /\ [][MatchNext]_vars

----------------------------------------------------------------------------
\* PgnSpec: _extract_pgn applied to two identifiers

PgnInit ==
    /\ pgn_in \in Identifiers \X Identifiers
    /\ pgn_done = FALSE
    /\ pgn_out = <<0, 0>>
    /\ SessionIdle
    /\ PCANInterface_init
    /\ MatchIdle
    /\ ValidateIdle
    /\ ParseIdle
    /\ LoadIdle

ExtractPgnCall ==
    /\ ~pgn_done
    /\ pgn_out' = <<_extract_pgn(pgn_in[1]), _extract_pgn(pgn_in[2])>>
    /\ pgn_done' = TRUE
    /\ UNCHANGED <<pgn_in, session_vars, match_vars, validate_vars, parse_vars,
                   load_vars, recv_vars>>

PgnNext == ExtractPgnCall

PgnSpec == PgnInit /\ [][PgnNext]_vars

----------------------------------------------------------------------------
\* ValidateSpec: validate_configuration applied to one configuration, and
\* _validate_signal to each of its signals

ValidateInit ==
    /\ candidate \in ValidationConfigs
    /\ validated = FALSE
    /\ validation = NoValidation
    /\ SessionIdle
    /\ PCANInterface_init
    /\ MatchIdle
    /\ PgnIdle
    /\ ParseIdle
    /\ LoadIdle

ValidateCall ==
    /\ ~validated
    /\ validation' =
          [configuration |-> validate_configuration(candidate),
           signals |-> [i \in 1..Len(Get(candidate, "signals", <<>>)) |->
                           _validate_signal(candidate["signals"][i])]]
    /\ validated' = TRUE
    /\ UNCHANGED <<candidate, session_vars, match_vars, pgn_vars, parse_vars,
                   load_vars, recv_vars>>

ValidateNext == ValidateCall

ValidateSpec == ValidateInit /\ [][ValidateNext]_vars

----------------------------------------------------------------------------
\* ParseSpec: _parse_value applied to one Python value

ParseInit ==
    /\ parse_in \in ParseInputs
    /\ parsed = FALSE
    /\ parse_out = Return(PyNone)
    /\ SessionIdle
    /\ PCANInterface_init
    /\ MatchIdle
    /\ PgnIdle
    /\ ValidateIdle
    /\ LoadIdle

ParseValueCall ==
    /\ ~parsed
    /\ parse_out' = _parse_value(parse_in)
    /\ parsed' = TRUE
    /\ UNCHANGED <<parse_in, session_vars, match_vars, pgn_vars, validate_vars,
                   load_vars, recv_vars>>

ParseNext == ParseValueCall

ParseSpec == ParseInit /\ [][ParseNext]_vars

----------------------------------------------------------------------------
\* LoadSpec: a ConfigSelectionScreen is built on a configuration file, and
\* Start Monitoring is clicked on rows of its list

LoadInit ==
    /\ config_file \in ConfigFiles
    /\ ConfigSelectionScreen_new
    /\ SessionIdle
    /\ PCANInterface_init
    /\ MatchIdle
    /\ PgnIdle
    /\ ValidateIdle
    /\ ParseIdle

LoadNext ==
    \/ _load_configurations
    \/ \E current_row \in 1..Len(configurations) : load_button_clicked(current_row)

LoadSpec == LoadInit /\ [][LoadNext]_vars

----------------------------------------------------------------------------
\* LiveSpec: a file is loaded, and match_signal is called with a frame on a
\* signal of a configuration that validate_configuration accepts

LiveInit ==
    /\ config_file \in LiveFiles
    /\ ConfigSelectionScreen_new
    /\ SessionIdle
    /\ PCANInterface_init
    /\ MatchIdle
    /\ PgnIdle
    /\ ValidateIdle
    /\ ParseIdle

LiveMatchCall(current_row, i, can_id, data) ==
    /\ screen_built
    /\ ~called
    /\ validate_configuration(configurations[current_row])
    /\ LET signal_config == configurations[current_row]["signals"][i]
           result == match_signal_loaded(signal_config, can_id, data)
       IN  /\ call' = [signal_config |-> signal_config, can_id |-> can_id,
                       data |-> data]
           /\ raised' = Raised(result)
           /\ is_match' = IF Raised(result) THEN FALSE ELSE result.value
    /\ called' = TRUE
    /\ UNCHANGED <<session_vars, pgn_vars, validate_vars, parse_vars,
                   load_vars, recv_vars>>

LiveNext ==
    \/ _load_configurations
    \/ \E current_row \in 1..Len(configurations) :
         \E i \in 1..Len(configurations[current_row]["signals"]) :
           \E can_id \in LiveFrameIds, data \in Payloads :
              LiveMatchCall(current_row, i, can_id, data)

LiveSpec == LiveInit /\ [][LiveNext]_vars

----------------------------------------------------------------------------
\* DisplaySpec: one monitoring screen with its display, filter and logging
\* controls

DisplayConfiguration ==
    [name |-> "cfg",
     signals |-> << [name |-> "A", can_id |-> PyInt(281),
                     match_type |-> "exact", data |-> PyList(<<PyInt(6)>>)] >>]

DisplayFrames ==
    { [arbitration_id |-> 281, data |-> <<6>>],
      [arbitration_id |-> 291, data |-> <<5>>] }

\* the screen MonitoringScreen.__init__ builds for DisplayConfiguration
DisplayInit ==
    /\ screen = "monitoring"
    /\ signal_matchers = _create_signal_tab(
            [i \in 1..Len(DisplayConfiguration["signals"]) |->
                SignalOfIntegers(DisplayConfiguration["signals"][i])])
    /\ led = [n \in DOMAIN signal_matchers |-> LEDIndicator_init]
    /\ display_messages = <<>>
    /\ pending_display_messages = <<>>
    /\ log_buffer = <<>>
    /\ is_logging = FALSE
    /\ display_paused = FALSE
    /\ last_message_time = <<>>
    /\ active_can_ids = <<>>
    /\ filtered_can_ids = {}
    /\ log_table = <<>>
    /\ message = NoMessage
    /\ notified = {}
    /\ clock = 0
    /\ sessions = 1
    /\ PCANInterface_init
    /\ MatchIdle
    /\ PgnIdle
    /\ ValidateIdle
    /\ ParseIdle
    /\ LoadIdle

DisplayNext ==
    \/ \E msg \in DisplayFrames : _on_message_received(msg)
    \/ DisplayUpdateTimer
    \/ _pause_display
    \/ _resume_display
    \/ _start_logging
    \/ \E written \in BOOLEAN : _stop_logging(written)
    \/ \E can_id \in DOMAIN active_can_ids, checked \in BOOLEAN :
          _on_filter_changed(can_id, checked)
    \/ _select_all_filters
    \/ _deselect_all_filters

DisplaySpec == DisplayInit /\ [][DisplayNext]_vars

----------------------------------------------------------------------------
\* InterfaceSpec: one PCANInterface under any sequence of connect,
\* start_receiving, stop_receiving and disconnect, with its receive threads

ReceiveFrames ==
    { [arbitration_id |-> 281, data |-> <<6>>],
      [arbitration_id |-> 291, data |-> <<5>>] }

RecvOutcomes == {"message", "None", "raise"}

\* a step of a receive thread; the threads are daemon threads, which end
\* with the application
_receive_loop ==
    /\ screen # "closed"
    /\ \E t \in ThreadIds :
          \/ _receive_loop_test(t)
          \/ \E outcome \in RecvOutcomes, msg \in ReceiveFrames :
                _receive_loop_recv(t, outcome, msg)
          \/ _receive_loop_emit(t)

InterfaceInit == Init

InterfaceNext ==
    \/ \E opened \in BOOLEAN : connect_call(opened)
    \/ start_receiving_call
    \/ stop_receiving_call
    \/ stop_receiving_joined
    \/ \E raises \in BOOLEAN : disconnect_call(raises)
    \/ \E raises \in BOOLEAN : disconnect_joined(raises)
    \/ _receive_loop

InterfaceSpec == InterfaceInit /\ [][InterfaceNext]_vars

----------------------------------------------------------------------------
\* ReceiveSpec: the application with its monitoring sessions, the frames
\* coming from the receive thread through the event queue

ReceiveConfiguration == DisplayConfiguration

ReceiveInit == Init

ReceiveNext ==
    \/ \E opened \in BOOLEAN : MonitoringScreen_new(ReceiveConfiguration, opened)
    \/ _receive_loop
    \/ deliver_message
    \/ deliver_deferred_delete
    \/ display_update_timer_timeout
    \/ \E raises \in BOOLEAN : _on_back_clicked_call(raises)
    \/ \E raises \in BOOLEAN : _on_back_clicked_joined(raises)
    \/ \E raises \in BOOLEAN : closeEvent_call(raises)
    \/ \E raises \in BOOLEAN : closeEvent_joined(raises)

ReceiveSpec == ReceiveInit /\ [][ReceiveNext]_vars

----------------------------------------------------------------------------
\* What the claims speak of: protocol, relevance and the payload policies

IsJ1939(rule) == "protocol" \in DOMAIN rule /\ rule["protocol"] = "j1939"

\* bits 8 through 25 of an identifier
Bits8To25(identifier) == (identifier \div 256) % 262144

\* a frame identifier is relevant to a rule: the same PGN for a J1939 rule,
\* the same identifier for a Standard rule
IsRelevant(rule, identifier) ==
    IF IsJ1939(rule)
    THEN _extract_pgn(identifier) = _extract_pgn(rule["can_id"])
    ELSE identifier = rule["can_id"]

\* the byte offset of a rule, under either spelling of the key
ByteIndexOf(rule) ==
    IF "byte_index" \in DOMAIN rule THEN rule["byte_index"]
    ELSE rule["data_byte_index"]

\* bit b of a byte, bit 0 the least significant
BitOf(byte, b) == (byte \div (2 ^ b)) % 2

ExactPolicy(rule, payload) == payload = rule["data"]

RangePolicy(rule, payload) ==
    LET i == ByteIndexOf(rule)
    IN  /\ Len(payload) > i
        /\ rule["min_value"] <= payload[i + 1]
        /\ payload[i + 1] <= rule["max_value"]

BitPolicy(rule, payload) ==
    LET i == rule["byte_index"]
    IN  /\ Len(payload) > i
        /\ BitOf(payload[i + 1], rule["bit_index"]) = rule["bit_value"]

PayloadPolicy(rule, payload) ==
    CASE rule["match_type"] = "exact" -> ExactPolicy(rule, payload)
      [] rule["match_type"] = "range" -> RangePolicy(rule, payload)
      [] rule["match_type"] = "bit" -> BitPolicy(rule, payload)

\* the rule with its byte offset under the legacy key data_byte_index
LegacySpelling(rule) ==
    [k \in (DOMAIN rule \ {"byte_index"}) \cup {"data_byte_index"} |->
        IF k = "data_byte_index" THEN rule["byte_index"] ELSE rule[k]]

----------------------------------------------------------------------------
\* Claims about the latch of a monitoring session (Spec)

\* the signal_matchers of the configurations validate_configuration accepts
AcceptedSignalMatchers ==
    {_create_signal_tab([i \in 1..Len(configuration["signals"]) |->
                            SignalOfIntegers(configuration["signals"][i])]) :
        configuration \in {c \in Configurations : validate_configuration(c)}}

\* C19: a monitoring session starts only for a configuration that
\* validate_configuration accepts: the rules every new MonitoringScreen
\* matches frames against are those of an accepted configuration.
C19_SessionOnlyForValidConfiguration ==
    [][sessions' # sessions => signal_matchers' \in AcceptedSignalMatchers]_vars

\* a session whose rules are those of an accepted configuration has
\* handled a frame, and its rules are not those of a rejected one-signal
\* configuration
C19_Witness ==
    /\ screen = "monitoring"
    /\ clock > 0
    /\ DOMAIN signal_matchers # {}
    /\ \A n \in DOMAIN signal_matchers :
          "byte_index" \notin DOMAIN signal_matchers[n]

\* a step in which the shown monitoring screen handles one frame
FrameStep == screen = "monitoring" /\ screen' = "monitoring" /\ clock' = clock + 1

\* C1: a frame whose identifier is not relevant to a rule leaves that rule's
\* latch/LED state as it was before the frame, for every rule by itself.
C1_IrrelevantFrameKeepsLatch ==
    [][FrameStep =>
        \A n \in DOMAIN signal_matchers :
            ~IsRelevant(signal_matchers[n], message'.arbitration_id)
                => led'[n] = led[n]]_vars

\* C2: after a frame relevant to a rule is handled, the rule's latch state is
\* the payload-policy result for that frame, whatever the state before.
C2_RelevantFrameSetsLatch ==
    (screen = "monitoring" /\ clock > 0) =>
        \A n \in DOMAIN signal_matchers :
            IsRelevant(signal_matchers[n], message.arbitration_id)
                => led[n] = PayloadPolicy(signal_matchers[n], message.data)

\* C3: every rule's latch state is false when a monitoring session starts,
\* whatever an earlier session left, and within a session it leaves false
\* only in a step that handles a frame relevant to the rule.
C3_LatchFalseUntilRelevantFrame ==
    [][/\ (screen = "config" /\ screen' = "monitoring")
              => \A n \in DOMAIN led' : led'[n] = FALSE
       /\ (sessions' = sessions)
              => \A n \in DOMAIN led :
                    (led[n] = FALSE /\ led'[n] = TRUE)
                        => /\ FrameStep
                           /\ IsRelevant(signal_matchers[n],
                                         message'.arbitration_id)]_vars

\* in the second monitoring session of a run a frame
\* not relevant to a rule has been handled and the rule's latch is false
C3_Witness ==
    /\ sessions = 2
    /\ screen = "monitoring"
    /\ clock > 0
    /\ \E n \in DOMAIN signal_matchers :
          /\ ~IsRelevant(signal_matchers[n], message.arbitration_id)
          /\ led[n] = FALSE

\* C13: handling a frame notifies (update_status) exactly the rules the
\* frame is relevant to; a rule of another identifier or PGN gets no
\* notification for that frame.
C13_OnlyRelevantRulesNotified ==
    (screen = "monitoring" /\ clock > 0) =>
        notified = {n \in DOMAIN signal_matchers :
                       IsRelevant(signal_matchers[n], message.arbitration_id)}

----------------------------------------------------------------------------
\* Claims about match_signal (MatchSpec)

\* C4: for a rule without a protocol field, whatever its match policy,
\* match_signal returns false when the frame identifier differs from the
\* rule's can_id, whatever the payload.
C4_StandardOtherIdNeverMatches ==
    (called /\ ~IsJ1939(call.signal_config)
            /\ call.can_id # call.signal_config["can_id"])
        => is_match = FALSE

\* a Standard rule met a frame of another identifier whose payload satisfies
\* the rule's policy, and the call returned false
C4_Witness ==
    /\ called
    /\ ~IsJ1939(call.signal_config)
    /\ call.can_id # call.signal_config["can_id"]
    /\ PayloadPolicy(call.signal_config, call.data)
    /\ is_match = FALSE

\* C5: for a rule with protocol j1939, a frame with the rule's PGN matches
\* whenever its payload satisfies the rule's policy (exact, range or bit),
\* also with another source address or priority, and a frame with a
\* different PGN never matches.
C5_J1939MatchesByPgn ==
    (called /\ IsJ1939(call.signal_config))
        => IF _extract_pgn(call.can_id) = _extract_pgn(call.signal_config["can_id"])
           THEN PayloadPolicy(call.signal_config, call.data) => is_match
           ELSE is_match = FALSE

\* C8: exact policy: for a relevant frame match_signal returns true iff the
\* payload equals the expected data, element for element and in length.
C8_ExactIffEqual ==
    (called /\ call.signal_config["match_type"] = "exact"
            /\ IsRelevant(call.signal_config, call.can_id))
        => (is_match <=> call.data = call.signal_config["data"])

\* C9: range policy: for a relevant frame and byte index i match_signal
\* returns true iff len(payload) > i and min_value <= payload[i] <= max_value;
\* so it is false just outside either limit, false when i >= len(payload),
\* and false for every payload when min_value > max_value.
C9_RangeIffWithin ==
    (called /\ call.signal_config["match_type"] = "range"
            /\ IsRelevant(call.signal_config, call.can_id))
        => (is_match <=> RangePolicy(call.signal_config, call.data))

\* C10: a range rule that spells its byte offset byte_index is evaluated
\* against payload[byte_index], with the result of the same rule spelled
\* with the legacy key data_byte_index.
C10_ByteIndexAlias ==
    (called /\ call.signal_config["match_type"] = "range"
            /\ "byte_index" \in DOMAIN call.signal_config)
        => is_match = match_signal(LegacySpelling(call.signal_config),
                                   call.can_id, call.data)

\* C11: bit policy: for a relevant frame and a byte_index within the payload
\* match_signal returns true iff bit bit_index of payload[byte_index] (bit 0
\* the least significant) equals bit_value; so a byte with only that bit set
\* matches bit_value 1 and not 0, and no other byte of the payload counts.
C11_BitIffBitEquals ==
    (called /\ call.signal_config["match_type"] = "bit"
            /\ IsRelevant(call.signal_config, call.can_id)
            /\ call.signal_config["byte_index"] < Len(call.data))
        => (is_match <=>
                BitOf(call.data[call.signal_config["byte_index"] + 1],
                      call.signal_config["bit_index"])
                    = call.signal_config["bit_value"])

\* C12: for a well-formed rule and a payload of any length match_signal ends
\* with a boolean result and no exception, and the result is false when the
\* rule's byte index is at or beyond the payload length.
C12_NoExceptionFalseBeyondPayload ==
    called =>
        /\ ~raised
        /\ is_match \in BOOLEAN
        /\ (/\ call.signal_config["match_type"] \in {"range", "bit"}
            /\ ByteIndexOf(call.signal_config) >= Len(call.data))
               => is_match = FALSE

----------------------------------------------------------------------------
\* Claims about validation (ValidateSpec)

\* the signals of the validated configuration
CandidateSignals == Get(candidate, "signals", <<>>)

HasRequiredFields(signal) ==
    {"name", "can_id", "match_type"} \subseteq DOMAIN signal

\* C14: validation rejects every rule that lacks name, can_id or match_type
\* and every rule whose match_type is none of exact, range, bit; and
\* validate_configuration rejects a configuration that contains such a rule.
C14_RejectsMissingFieldOrUnknownType ==
    validated =>
        \A i \in 1..Len(CandidateSignals) :
            (\/ ~HasRequiredFields(CandidateSignals[i])
             \/ CandidateSignals[i]["match_type"] \notin {"exact", "range", "bit"})
                => /\ validation.signals[i] = FALSE
                   /\ validation.configuration = FALSE

\* a rule of match_type regex that has name, can_id, a data list and every
\* key of the range and bit policies was rejected, and its configuration too
C14_Witness ==
    /\ validated
    /\ Len(CandidateSignals) = 1
    /\ HasRequiredFields(CandidateSignals[1])
    /\ CandidateSignals[1]["match_type"] = "regex"
    /\ NumericKeys \subseteq DOMAIN CandidateSignals[1]
    /\ isinstance_list(CandidateSignals[1]["data"])
    /\ validation.signals[1] = FALSE
    /\ validation.configuration = FALSE

C16_BitAcceptance ==
    validated =>
        \A i \in 1..Len(CandidateSignals) :
            LET signal == CandidateSignals[i]
            IN  (HasRequiredFields(signal) /\ signal["match_type"] = "bit") =>
                  (validation.signals[i] <=>
                      {"byte_index", "bit_index", "bit_value"}
                          \subseteq DOMAIN signal)

----------------------------------------------------------------------------
\* Claims about _parse_value (ParseSpec)

DecimalDigits == {"0", "1", "2", "3", "4", "5", "6", "7", "8", "9"}
HexDigits == DecimalDigits \cup {"a", "b", "c", "d", "e", "f",
                                 "A", "B", "C", "D", "E", "F"}

\* one or more characters, all of them in the set
IsNumeral(chars, digits) ==
    chars # <<>> /\ \A i \in 1..Len(chars) : chars[i] \in digits

\* the prefix 0x or 0X followed by one or more hex digits
IsHexString(chars) ==
    /\ Len(chars) > 2
    /\ chars[1] = "0"
    /\ chars[2] \in {"x", "X"}
    /\ IsNumeral(SubSeq(chars, 3, Len(chars)), HexDigits)

\* C17: _parse_value returns an integer unchanged (a bool is an int of
\* Python), the numeric value of a decimal string, the hexadecimal value of
\* a string with prefix 0x or 0X and hex digits of either case, and raises
\* ValueError for None and for a list.
C17_ParseValue ==
    parsed =>
        /\ isinstance_int(parse_in) => parse_out = Return(parse_in)
        /\ (isinstance_str(parse_in) /\ IsNumeral(parse_in.str, DecimalDigits))
              => parse_out = Return(PyInt(PositionalValue(parse_in.str, 10)))
        /\ (isinstance_str(parse_in) /\ IsHexString(parse_in.str))
              => parse_out = Return(PyInt(PositionalValue(
                     SubSeq(parse_in.str, 3, Len(parse_in.str)), 16)))
        /\ (parse_in = PyNone \/ isinstance_list(parse_in))
              => parse_out = Raise("ValueError")

\* the string 0XaF, with the upper-case prefix and hex digits of both
\* cases, was parsed to 175
C17_Witness ==
    /\ parsed
    /\ parse_in = PyStr(<<"0", "X", "a", "F">>)
    /\ parse_out = Return(PyInt(175))

----------------------------------------------------------------------------
\* Claims about loading and selecting configurations (LoadSpec)

\* a value the file may give for a number: an int, a decimal string or a
\* hex string
IsNumber(value) ==
    \/ "int" \in DOMAIN value
    \/ /\ isinstance_str(value)
       /\ (IsNumeral(value.str, DecimalDigits) \/ IsHexString(value.str))

\* the number such a value denotes
NumberOf(value) ==
    IF "int" \in DOMAIN value THEN value.int
    ELSE IF IsHexString(value.str)
    THEN PositionalValue(SubSeq(value.str, 3, Len(value.str)), 16)
    ELSE PositionalValue(value.str, 10)

\* C18: after load_configurations has returned, every numeric field of every
\* signal (can_id, each element of data, min_value, max_value, byte_index or
\* data_byte_index, bit_index, bit_value) that the file gives as an integer
\* or as a hex string is the Python int of that value.
C18_NumericFieldsAreIntegers ==
    screen_built =>
        \A c \in 1..Len(configurations) :
            \A i \in 1..Len(configurations[c]["signals"]) :
                LET written == config_file[c]["signals"][i]
                    loaded == configurations[c]["signals"][i]
                IN  \A k \in DOMAIN written \cap NumericKeys :
                        IF k = "data"
                        THEN \A j \in 1..Len(written[k].list) :
                                 IsNumber(written[k].list[j]) =>
                                     loaded[k].list[j] =
                                         PyInt(NumberOf(written[k].list[j]))
                        ELSE IsNumber(written[k]) =>
                                 loaded[k] = PyInt(NumberOf(written[k]))

\* a rule that has the fields of its match type, all of them numbers
IsWellFormedSignal(signal) ==
    /\ HasRequiredFields(signal)
    /\ \/ /\ signal["match_type"] = "exact"
          /\ "data" \in DOMAIN signal
          /\ isinstance_list(signal["data"])
       \/ /\ signal["match_type"] = "range"
          /\ {"min_value", "max_value"} \subseteq DOMAIN signal
          /\ {"data_byte_index", "byte_index"} \cap DOMAIN signal # {}
       \/ /\ signal["match_type"] = "bit"
          /\ {"byte_index", "bit_index", "bit_value"} \subseteq DOMAIN signal
    /\ \A k \in DOMAIN signal \cap NumericKeys :
          IF k = "data"
          THEN \A j \in 1..Len(signal[k].list) : IsNumber(signal[k].list[j])
          ELSE IsNumber(signal[k])

IsWellFormedConfiguration(config) ==
    /\ {"name", "signals"} \subseteq DOMAIN config
    /\ \A i \in 1..Len(config["signals"]) : IsWellFormedSignal(config["signals"][i])

\* C20: a malformed rule or value in one configuration of the file makes
\* only that configuration unavailable: every well-formed configuration of
\* the file is in the list, the Start Monitoring button is enabled and the
\* configuration passes validation when it is selected; and a session is
\* only ever started for a well-formed one.
C20_OnlyMalformedConfigurationUnavailable ==
    screen_built =>
        /\ \A c \in 1..Len(config_file) :
              IsWellFormedConfiguration(config_file[c]) =>
                  /\ load_button_enabled
                  /\ \E current_row \in 1..Len(configurations) :
                        /\ configurations[current_row]["name"] =
                               config_file[c]["name"]
                        /\ validate_configuration(configurations[current_row])
        /\ \A e \in 1..Len(emitted) :
              \A c \in 1..Len(config_file) :
                  config_file[c]["name"] = emitted[e]["name"] =>
                      IsWellFormedConfiguration(config_file[c])

----------------------------------------------------------------------------
\* Claims about live matching on loaded configurations (LiveSpec)

\* C22: for every signal of a configuration that load_configurations
\* returned and validate_configuration accepted, whatever representation
\* (int, decimal string, hex string) the file used for its numeric fields,
\* and for every frame, match_signal returns a boolean and does not raise.
C22_LoadedConfigurationNeverRaises ==
    called => (~raised /\ is_match \in BOOLEAN)

----------------------------------------------------------------------------
\* Claims about _extract_pgn (PgnSpec)

\* C6: two 29-bit identifiers that differ only in bits 0-7 (source address)
\* and/or bits 26-28 (priority) have the same PGN.
C6_PgnIgnoresSourceAndPriority ==
    (pgn_done /\ Bits8To25(pgn_in[1]) = Bits8To25(pgn_in[2]))
        => pgn_out[1] = pgn_out[2]

\* two identifiers of different source address and different priority, the
\* same in bits 8-25, were given the same PGN
C6_Witness ==
    /\ pgn_done
    /\ Bits8To25(pgn_in[1]) = Bits8To25(pgn_in[2])
    /\ pgn_in[1] % 256 # pgn_in[2] % 256
    /\ pgn_in[1] \div 67108864 # pgn_in[2] \div 67108864
    /\ pgn_out[1] = pgn_out[2]

\* C7: the PGN of an identifier is the value of its bits 8 through 25, so two
\* identifiers have equal PGNs iff they agree on all of bits 8-25.
C7_PgnIsBits8To25 ==
    pgn_done =>
        /\ pgn_out[1] = Bits8To25(pgn_in[1])
        /\ (pgn_out[1] = pgn_out[2] <=> Bits8To25(pgn_in[1]) = Bits8To25(pgn_in[2]))

----------------------------------------------------------------------------
\* The display buffer, the pending queue, the filter and the log (DisplaySpec)

\* msg_data is the entry _on_message_received made for the frame msg that
\* arrived as number t
IsEntryOf(msg_data, msg, t) ==
    /\ msg_data.timestamp = t
    /\ msg_data.can_id = msg.arbitration_id
    /\ msg_data.data = msg.data

\* after is before with the entry of the frame of this step at its end
AppendsFrame(before, after) ==
    /\ Len(after) = Len(before) + 1
    /\ SubSeq(after, 1, Len(before)) = before
    /\ IsEntryOf(after[Len(after)], message', clock')

\* the last n entries of s
LastOf(s, n) == IF Len(s) > n THEN SubSeq(s, Len(s) - n + 1, Len(s)) ELSE s

PausedStep == screen = "monitoring" /\ display_paused /\ display_paused'

ResumeStep == screen = "monitoring" /\ display_paused /\ ~display_paused'
              /\ screen' = "monitoring"

StartLoggingStep == screen = "monitoring" /\ ~is_logging /\ is_logging'

StopLoggingStep == screen = "monitoring" /\ is_logging /\ ~is_logging'
                   /\ screen' = "monitoring"

\* C24: display_messages never holds more than max_display_messages
\* entries, and the entries of display_messages followed by those of the
\* pending queue are the most recently received frames in arrival order
\* (frame number clock is the last one, and no number is skipped)
C24_DisplayBoundedKeepsMostRecent ==
    /\ Len(display_messages) <= max_display_messages
    /\ LET kept == display_messages \o pending_display_messages
       IN  \A i \in 1..Len(kept) : kept[i].timestamp = clock - Len(kept) + i

\* the display buffer is full and its oldest entries have been trimmed
C24_Witness ==
    /\ Len(display_messages) = max_display_messages
    /\ display_messages[1].timestamp > 1
    /\ pending_display_messages = <<>>

\* C25 as stated: the pending queue never holds more than
\* max_pending_messages entries, whether the display is paused or not
C25_PendingBounded ==
    Len(pending_display_messages) <= max_pending_messages

\* C25, amended: while the display is not paused the pending queue never
\* holds more than max_pending_messages entries
C25_PendingBoundedUnlessPaused ==
    ~display_paused =>
        Len(pending_display_messages) <= max_pending_messages

\* the queue is at its bound after earlier frames were flushed from it
C25_Witness ==
    /\ ~display_paused
    /\ Len(pending_display_messages) = max_pending_messages
    /\ clock > max_pending_messages

\* while the display stays paused display_messages does not change, a frame
\* is appended to the pending queue and nothing else changes the queue
C26_PausedFramesQueued ==
    /\ PausedStep => display_messages' = display_messages
    /\ (PausedStep /\ FrameStep) =>
           AppendsFrame(pending_display_messages, pending_display_messages')
    /\ (PausedStep /\ ~FrameStep) =>
           pending_display_messages' = pending_display_messages

\* _resume_display leaves the queue empty and the display buffer holding
\* what it held followed by the queued frames, trimmed to its bound
C26_ResumeMovesQueue ==
    ResumeStep =>
        /\ pending_display_messages' = <<>>
        /\ display_messages' =
               LastOf(display_messages \o pending_display_messages,
                      max_display_messages)

\* C26 as stated: while the display is paused the display buffer and the
\* table do not change and every frame is queued in arrival order; after
\* _resume_display the queued frames are in the display buffer, in order,
\* and the queue is empty
C26_PauseChangesNothing ==
    [][ /\ C26_PausedFramesQueued
        /\ PausedStep => log_table' = log_table
        /\ C26_ResumeMovesQueue ]_vars

\* C26, amended: as C26, but while the display is paused the table changes
\* only when the user changes the CAN ID filter
C26_PauseResumeLosesNothing ==
    [][ /\ C26_PausedFramesQueued
        /\ (PausedStep /\ filtered_can_ids' = filtered_can_ids) =>
               log_table' = log_table
        /\ C26_ResumeMovesQueue ]_vars

\* the display is paused and more frames than the flush threshold are queued
C26_Witness ==
    /\ display_paused
    /\ Len(pending_display_messages) > max_pending_messages

\* _start_logging empties log_buffer; a frame is appended to it exactly
\* when is_logging is true, whether the display is paused or not
C27_WindowLogged ==
    /\ StartLoggingStep => log_buffer' = <<>>
    /\ FrameStep => IF is_logging THEN AppendsFrame(log_buffer, log_buffer')
                    ELSE log_buffer' = log_buffer

\* C27 as stated: log_buffer is at any time the sequence of the frames
\* received while logging since the most recent _start_logging: it is
\* emptied by _start_logging, extended by each frame received while
\* is_logging is true, and changed by nothing else
C27_LogIsWindowAtAnyTime ==
    [][ /\ C27_WindowLogged
        /\ (~StartLoggingStep /\ ~FrameStep) => log_buffer' = log_buffer ]_vars

\* C27, amended: as C27, except that _stop_logging may empty log_buffer
\* (when the log was written to a file)
C27_LogIsWindowUntilSaved ==
    [][ /\ C27_WindowLogged
        /\ (~StartLoggingStep /\ ~FrameStep) =>
              \/ log_buffer' = log_buffer
              \/ StopLoggingStep /\ log_buffer' = <<>> ]_vars

\* frames are logged while the display is paused, and the frame received
\* before _start_logging is not in the log
C27_Witness ==
    /\ is_logging
    /\ display_paused
    /\ log_buffer # <<>>
    /\ log_buffer[1].timestamp > 1

\* C28: every CAN ID in display_messages has a filter entry in
\* active_can_ids, and a buffered message whose ID has a checked entry is
\* shown in the table
C28_DisplayedIdsHaveFilterEntry ==
    /\ \A i \in 1..Len(display_messages) :
          display_messages[i].can_id \in DOMAIN active_can_ids
    /\ log_table = SelectSeq(display_messages,
                      LAMBDA msg_data : msg_data.can_id \in filtered_can_ids)

----------------------------------------------------------------------------
\* The receive thread, the event queue and the end of a session
\* (InterfaceSpec, ReceiveSpec)

\* a step of a receive thread: the place of a thread in _receive_loop changes
ThreadStep ==
    \E t \in DOMAIN loops : t \in DOMAIN loops' /\ loops'[t] # loops[t]

\* a step in which the screen handles a frame
HandlerStep == sessions' = sessions /\ clock' = clock + 1

\* the fields of the screen that _on_message_received writes
handler_state == <<led, notified, message, clock, last_message_time,
                   log_buffer, pending_display_messages, display_messages,
                   active_can_ids, filtered_can_ids, log_table>>

\* C21: a step of a receive thread changes no field of the screen (it only
\* posts the frame); the latches and the frame count change only in a step
\* of the GUI thread that takes the oldest posted frame from the event
\* queue and handles that one frame
C21_OneFrameHandledAtATime ==
    [][ /\ ThreadStep => UNCHANGED session_vars
        /\ (sessions' = sessions /\ (clock' # clock \/ led' # led)) =>
              /\ gui = "idle"
              /\ event_queue # <<>>
              /\ Head(event_queue).kind = "message"
              /\ event_queue' = Tail(event_queue)
              /\ message' = Head(event_queue).msg
              /\ clock' = clock + 1 ]_vars

\* a frame has been handled, another one is posted and the thread holds a
\* third one
C21_Witness ==
    /\ screen = "monitoring"
    /\ clock >= 1
    /\ event_queue # <<>>
    /\ Head(event_queue).kind = "message"
    /\ \E t \in DOMAIN loops : loops[t].pc = "emit"

\* the frames posted to the event queue are in the order bus.recv returned
\* them
PostedInOrderRead ==
    \A i, j \in 1..Len(event_queue) :
        (/\ i < j
         /\ event_queue[i].kind = "message"
         /\ event_queue[j].kind = "message")
            => event_queue[i].seq < event_queue[j].seq

\* C23: the frames are posted in the order read and handled oldest first,
\* each once, and a handled frame sets the latch of every rule it is
\* relevant to to the payload-policy result and leaves the other latches as
\* they were
C23_FramesHandledInOrderSetLatch ==
    [][ /\ PostedInOrderRead
        /\ HandlerStep =>
              /\ event_queue # <<>>
              /\ event_queue' = Tail(event_queue)
              /\ message' = Head(event_queue).msg
              /\ \A n \in DOMAIN signal_matchers :
                    led'[n] =
                       IF IsRelevant(signal_matchers[n],
                                     message'.arbitration_id)
                       THEN PayloadPolicy(signal_matchers[n], message'.data)
                       ELSE led[n] ]_vars

\* C29: at most one thread is in _receive_loop at any time
C29_AtMostOneReceiveLoop ==
    Cardinality(alive(PCAN)) <= 1

\* a monitoring session has ended and its disconnect has returned
SessionEnded ==
    /\ sessions > 0
    /\ screen \in {"ended", "config", "closed"}
    /\ gui = "idle"

\* C30: once the disconnect of an ended session has returned, running is
\* false and bus is None, no thread emits message_received, and no field
\* of the ended session that the frame handler writes changes (until the
\* next session starts)
C30_EndedSessionGetsNoFrame ==
    [][ (SessionEnded /\ sessions' = sessions) =>
            /\ ~running
            /\ bus = "None"
            /\ \A t \in DOMAIN loops :
                  loops[t].pc = "emit" => loops'[t].pc = "emit"
            /\ UNCHANGED handler_state ]_vars

====
